---------------------------- MODULE Spec2Model ----------------------------
(***************************************************************************)
(* Customer-Ticket-Analyzer: the ticket pipeline of main.py (three agents  *)
(* run in sequence per ticket, results collected in a list) and the batch  *)
(* metrics of evaluation/metrics.py.                                       *)
(*                                                                         *)
(* Python values are records [t |-> type name, v |-> value]; a float is a  *)
(* reduced fraction [n |-> numerator, d |-> denominator] (the model does   *)
(* exact arithmetic where Python rounds to a double).  A Python str is a   *)
(* TLA+ string; Chars gives the characters of every string whose text the  *)
(* code inspects (substring tests, split, int).                            *)
(***************************************************************************)
EXTENDS Integers, Sequences, FiniteSets, TLC

VARIABLES
    tickets,           \* TEST_TICKETS: the batch main.py iterates over
    idx,               \* number of loop iterations of main.py completed
    pc,                \* position of the main program
    sentiment_result,  \* process_ticket's local of the same name
    priority_result,   \* process_ticket's local of the same name
    routing_result,    \* process_ticket's local of the same name
    calls,             \* every AIModel.run invocation so far, in order
    results,           \* main.py's results list
    error,             \* the exception that ended the program, if any
    ticket_results,    \* calculate_metrics's argument
    metrics            \* what the call of calculate_metrics produced

vars == <<tickets, idx, pc, sentiment_result, priority_result, routing_result,
          calls, results, error, ticket_results, metrics>>

---------------------------------------------------------------------------
\* Bounds of the model.

MaxBatch == 3

MaxTickets == 3

---------------------------------------------------------------------------
\* Python values.

PyStr(s) == [t |-> "str", v |-> s]

PyInt(i) == [t |-> "int", v |-> i]

PyBool(b) == [t |-> "bool", v |-> b]

PyNone == [t |-> "NoneType", v |-> "None"]

RECURSIVE GCD(_, _)
GCD(a, b) == IF b = 0 THEN a ELSE GCD(b, a % b)

Abs(x) == IF x < 0 THEN -x ELSE x

\* The number n/d (d # 0) as a reduced fraction with a positive denominator.
Frac(n, d) ==
    LET g == GCD(Abs(n), Abs(d))
        s == IF d < 0 THEN -1 ELSE 1
    IN [n |-> (s * n) \div g, d |-> (s * d) \div g]

FracAdd(a, b) == Frac(a.n * b.d + b.n * a.d, a.d * b.d)

PyFloat(n, d) == [t |-> "float", v |-> Frac(n, d)]

\* The numeric value of an int or float as a fraction.
Num(x) == IF x.t = "int" THEN Frac(x.v, 1) ELSE x.v

Raise(exc, at) == [raised |-> TRUE, exc |-> exc, at |-> at]

Return(x) == [raised |-> FALSE, value |-> x]

---------------------------------------------------------------------------
\* Strings.

Chars ==
    ("sentiment_score" :> <<"s", "e", "n", "t", "i", "m", "e", "n", "t", "_", "s", "c", "o", "r", "e">>) @@
    ("urgency_level" :> <<"u", "r", "g", "e", "n", "c", "y", "_", "l", "e", "v", "e", "l">>) @@
    ("priority_score" :> <<"p", "r", "i", "o", "r", "i", "t", "y", "_", "s", "c", "o", "r", "e">>) @@
    ("sla_target_time" :> <<"s", "l", "a", "_", "t", "a", "r", "g", "e", "t", "_", "t", "i", "m", "e">>) @@
    ("route_to" :> <<"r", "o", "u", "t", "e", "_", "t", "o">>) @@
    ("escalate" :> <<"e", "s", "c", "a", "l", "a", "t", "e">>) @@
    ("4 hours" :> <<"4", " ", "h", "o", "u", "r", "s">>) @@
    ("2 hours" :> <<"2", " ", "h", "o", "u", "r", "s">>) @@
    ("30 minutes" :> <<"3", "0", " ", "m", "i", "n", "u", "t", "e", "s">>) @@
    ("1 day" :> <<"1", " ", "d", "a", "y">>) @@
    ("about 2 hours" :> <<"a", "b", "o", "u", "t", " ", "2", " ", "h", "o", "u", "r", "s">>) @@
    ("score" :> <<"s", "c", "o", "r", "e">>) @@
    ("level" :> <<"l", "e", "v", "e", "l">>) @@
    ("time" :> <<"t", "i", "m", "e">>) @@
    ("route" :> <<"r", "o", "u", "t", "e">>) @@
    ("hour" :> <<"h", "o", "u", "r">>) @@
    ("minute" :> <<"m", "i", "n", "u", "t", "e">>)

\* Python's `sub in s` on strings.
Contains(sub, s) ==
    LET a == Chars[sub]
        b == Chars[s]
    IN \E i \in 0..(Len(b) - Len(a)) : SubSeq(b, i + 1, i + Len(a)) = a

\* str.split() with no argument: the maximal runs of non-blank characters.
RECURSIVE SplitFrom(_, _, _, _)
SplitFrom(b, i, cur, acc) ==
    IF i > Len(b)
    THEN IF cur = <<>> THEN acc ELSE Append(acc, cur)
    ELSE IF b[i] = " "
         THEN SplitFrom(b, i + 1, <<>>, IF cur = <<>> THEN acc ELSE Append(acc, cur))
         ELSE SplitFrom(b, i + 1, Append(cur, b[i]), acc)

split(s) == SplitFrom(Chars[s], 1, <<>>, <<>>)

DigitVal ==
    ("0" :> 0) @@ ("1" :> 1) @@ ("2" :> 2) @@ ("3" :> 3) @@ ("4" :> 4) @@
    ("5" :> 5) @@ ("6" :> 6) @@ ("7" :> 7) @@ ("8" :> 8) @@ ("9" :> 9)

RECURSIVE DigitsValue(_, _)
DigitsValue(ds, acc) ==
    IF ds = <<>> THEN acc
    ELSE DigitsValue(Tail(ds), acc * 10 + DigitVal[Head(ds)])

\* int(tok) on a string without blanks: an optional sign and decimal digits,
\* ValueError otherwise.
int(tok) ==
    LET signed == tok # <<>> /\ Head(tok) \in {"+", "-"}
        ds == IF signed THEN Tail(tok) ELSE tok
    IN IF ds # <<>> /\ \A i \in 1..Len(ds) : ds[i] \in DOMAIN DigitVal
       THEN Return(IF signed /\ Head(tok) = "-"
                   THEN -DigitsValue(ds, 0) ELSE DigitsValue(ds, 0))
       ELSE Raise("ValueError", "int")

\* sla.split()[0], passed to int.
FirstTokenInt(sla) ==
    LET toks == split(sla)
    IN IF toks = <<>> THEN Raise("IndexError", "split") ELSE int(toks[1])

---------------------------------------------------------------------------
\* evaluation/metrics.py

parse_sla(sla) ==
    IF Contains("hour", sla)
    THEN LET r == FirstTokenInt(sla)
         IN IF r.raised THEN r ELSE Return(Frac(r.value, 1))
    ELSE IF Contains("minute", sla)
    THEN LET r == FirstTokenInt(sla)
         IN IF r.raised THEN r ELSE Return(Frac(r.value, 60))
    ELSE Return(Frac(0, 1))

\* sum(1 for t in ticket_results if t["routing"]["escalate"])
RECURSIVE EscalatedCount(_)
EscalatedCount(tr) ==
    IF tr = <<>> THEN 0
    ELSE (IF Head(tr).routing.escalate.v = TRUE THEN 1 ELSE 0)
         + EscalatedCount(Tail(tr))

\* TrueDiv with a zero divisor answered by 0 instead of an exception.
TrueDivZero(a, b) ==
    IF b = 0 THEN Return(Frac(0, 1)) ELSE Return(Frac(a, b))

\* a / b on numbers: ZeroDivisionError when b is 0.
TrueDiv(a, b) ==
    IF b = 0 THEN Raise("ZeroDivisionError", "escalation_rate")
    ELSE Return(Frac(a, b))

\* Counter(routes): each key is counted as it is met.
RECURSIVE Counter(_)
Counter(routes) ==
    IF routes = <<>> THEN [k \in {} |-> 0]
    ELSE LET c == Counter(SubSeq(routes, 1, Len(routes) - 1))
             k == routes[Len(routes)]
         IN IF k \in DOMAIN c
            THEN [c EXCEPT ![k] = @ + 1]
            ELSE c @@ (k :> 1)

RECURSIVE sum(_)
sum(xs) == IF xs = <<>> THEN Frac(0, 1) ELSE FracAdd(Head(xs), sum(Tail(xs)))

\* The list comprehension of line 25: the first parse_sla that raises ends it.
SlaList(tr) ==
    LET parsed == [i \in 1..Len(tr) |-> parse_sla(tr[i].priority.sla_target_time.v)]
        bad == {i \in 1..Len(tr) : parsed[i].raised}
    IN IF bad # {}
       THEN LET first == CHOOSE i \in bad : \A j \in bad : i <= j
            IN Raise(parsed[first].exc, "average_sla_hours")
       ELSE Return([i \in 1..Len(tr) |-> parsed[i].value])

\* sum(slas) / total if slas else 0
AverageSla(slas, total) ==
    IF slas # <<>>
    THEN Return(Frac(sum(slas).n, sum(slas).d * total))
    ELSE Return(Frac(0, 1))

calculate_metrics(tr) ==
    LET total == Len(tr)
        rate == TrueDiv(EscalatedCount(tr), total)
        routes == [i \in 1..Len(tr) |-> tr[i].routing.route_to.v]
        slas == SlaList(tr)
    IN IF rate.raised THEN rate
       ELSE IF slas.raised THEN slas
       ELSE Return([escalation_rate |-> rate.value,
                    route_distribution |-> Counter(routes),
                    average_sla_hours |-> AverageSla(slas.value, total).value])

---------------------------------------------------------------------------
\* agents/*.py: the declared fields of each pydantic model, with their types.

SentimentInput == [subject |-> "str", message |-> "str"]

SentimentOutput == [sentiment_score |-> "float", urgency_level |-> "str"]

PriorityInput ==
    [customer_tier |-> "str", previous_tickets |-> "int",
     monthly_revenue |-> "float", account_age_days |-> "int"]

PriorityOutput == [priority_score |-> "float", sla_target_time |-> "str"]

RoutingInput ==
    [urgency_level |-> "str", sentiment_score |-> "float",
     priority_score |-> "float", sla_target_time |-> "str"]

RoutingOutput == [route_to |-> "str", escalate |-> "bool"]

\* A value a field of the given type accepts: one of that type, or an int for
\* a float field (stored as a float).  None is accepted by no declared field.
Accepts(type, x) == x.t = type \/ (type = "float" /\ x.t = "int")

Coerce(type, x) ==
    IF type = "float" /\ x.t = "int" THEN PyFloat(x.v, 1) ELSE x

\* BaseModel.__init__(**kwargs): every declared field is validated; the
\* model holds the validated values, or ValidationError names the model.
Validate(title, schema, kwargs) ==
    IF \A f \in DOMAIN schema : Accepts(schema[f], kwargs[f])
    THEN Return([f \in DOMAIN schema |-> Coerce(schema[f], kwargs[f])])
    ELSE Raise("ValidationError", title)

---------------------------------------------------------------------------
\* pydantic_ai.py

\* mock_value with a score outside every declared range.
mock_value_out_of_range(name) ==
    IF Contains("score", name) THEN PyFloat(18, 10)
    ELSE IF Contains("level", name) THEN PyStr("Medium")
    ELSE IF Contains("time", name) THEN PyStr("4 hours")
    ELSE IF Contains("route", name) THEN PyStr("Tier 2 Support")
    ELSE IF Contains("escalate", name) THEN PyBool(TRUE)
    ELSE PyStr("unknown")

mock_value(name) ==
    IF Contains("score", name) THEN PyFloat(8, 10)
    ELSE IF Contains("level", name) THEN PyStr("Medium")
    ELSE IF Contains("time", name) THEN PyStr("4 hours")
    ELSE IF Contains("route", name) THEN PyStr("Tier 2 Support")
    ELSE IF Contains("escalate", name) THEN PyBool(TRUE)
    ELSE PyStr("unknown")

\* AIModel.run: the output model built from mock_value of each of its fields.
run(title, output_model) ==
    Validate(title, output_model, [key \in DOMAIN output_model |-> mock_value(key)])

---------------------------------------------------------------------------
\* main.py

Unset == [t |-> "unset", v |-> "unset"]

NoError == [raised |-> FALSE]

NotCalled == [called |-> FALSE]

SentimentKwargs(ticket) == [subject |-> ticket.subject, message |-> ticket.message]

PriorityKwargs(ticket) ==
    [customer_tier |-> ticket.customer_tier,
     previous_tickets |-> ticket.previous_tickets,
     monthly_revenue |-> ticket.monthly_revenue,
     account_age_days |-> ticket.account_age_days]

\* RoutingKwargs with the two string fields taken from the wrong result.
RoutingKwargsSwapped(s, p) ==
    [urgency_level |-> p.sla_target_time,
     sentiment_score |-> s.sentiment_score,
     priority_score |-> p.priority_score,
     sla_target_time |-> s.urgency_level]

RoutingKwargs(s, p) ==
    [urgency_level |-> s.urgency_level,
     sentiment_score |-> s.sentiment_score,
     priority_score |-> p.priority_score,
     sla_target_time |-> p.sla_target_time]

\* The dict process_ticket returns.
Outcome(ticket, s, p, r) ==
    [ticket_id |-> ticket.ticket_id, sentiment |-> s, priority |-> p, routing |-> r]

\* AppendResult putting the new outcome at the front of the list.
AppendResultFront(rs, r) == <<r>> \o rs

\* results.append(result)
AppendResult(rs, r) == Append(rs, r)

\* The line AIModel.run prints: the agent's class and the input it was given.
Call(i, agent, input) == [ticket |-> i, agent |-> agent, input |-> input]

\* The tickets a batch is drawn from: two well-formed ones, one whose subject
\* is None and one whose customer_tier is None.
TicketPool ==
    { [ticket_id |-> PyStr("T-001"), subject |-> PyStr("Login fails"),
       message |-> PyStr("Cannot log in"), customer_tier |-> PyStr("premium"),
       previous_tickets |-> PyInt(3), monthly_revenue |-> PyFloat(5000, 1),
       account_age_days |-> PyInt(400)],
      [ticket_id |-> PyStr("T-002"), subject |-> PyStr("Invoice"),
       message |-> PyStr("Wrong amount"), customer_tier |-> PyStr("free"),
       previous_tickets |-> PyInt(0), monthly_revenue |-> PyInt(25),
       account_age_days |-> PyInt(12)],
      [ticket_id |-> PyStr("T-003"), subject |-> PyNone,
       message |-> PyStr("No subject"), customer_tier |-> PyStr("premium"),
       previous_tickets |-> PyInt(1), monthly_revenue |-> PyFloat(99, 1),
       account_age_days |-> PyInt(30)],
      [ticket_id |-> PyStr("T-004"), subject |-> PyStr("Outage"),
       message |-> PyStr("Service down"), customer_tier |-> PyNone,
       previous_tickets |-> PyInt(7), monthly_revenue |-> PyFloat(1200, 1),
       account_age_days |-> PyInt(90)] }

SeqsUpTo(S, n) == UNION {[1..k -> S] : k \in 0..n}

Init ==
    /\ tickets \in SeqsUpTo(TicketPool, MaxTickets)
    /\ idx = 0
    /\ pc = "loop"
    /\ sentiment_result = Unset
    /\ priority_result = Unset
    /\ routing_result = Unset
    /\ calls = <<>>
    /\ results = <<>>
    /\ error = NoError
    /\ ticket_results = <<>>
    /\ metrics = NotCalled

\* for i, ticket in enumerate(TEST_TICKETS): process_ticket(ticket) is entered.
LoopEnter ==
    /\ pc = "loop"
    /\ idx < Len(tickets)
    /\ pc' = "sentiment"
    /\ sentiment_result' = Unset
    /\ priority_result' = Unset
    /\ routing_result' = Unset
    /\ UNCHANGED <<tickets, idx, calls, results, error, ticket_results, metrics>>

\* sentiment_result = sentiment_agent.run(SentimentInput(...))
RunSentiment ==
    /\ pc = "sentiment"
    /\ LET input == Validate("SentimentInput", SentimentInput,
                             SentimentKwargs(tickets[idx + 1]))
           out == run("SentimentOutput", SentimentOutput)
       IN IF input.raised
          THEN /\ pc' = "failed"
               /\ error' = input
               /\ UNCHANGED <<calls, sentiment_result>>
          ELSE /\ calls' = Append(calls, Call(idx + 1, "SentimentAgent", input.value))
               /\ IF out.raised
                  THEN pc' = "failed" /\ error' = out /\ UNCHANGED sentiment_result
                  ELSE pc' = "priority" /\ sentiment_result' = out.value
                       /\ UNCHANGED error
    /\ UNCHANGED <<tickets, idx, priority_result, routing_result, results,
                   ticket_results, metrics>>

\* priority_result = tier_agent.run(PriorityInput(...))
RunPriority ==
    /\ pc = "priority"
    /\ LET input == Validate("PriorityInput", PriorityInput,
                             PriorityKwargs(tickets[idx + 1]))
           out == run("PriorityOutput", PriorityOutput)
       IN IF input.raised
          THEN /\ pc' = "failed"
               /\ error' = input
               /\ UNCHANGED <<calls, priority_result>>
          ELSE /\ calls' = Append(calls, Call(idx + 1, "TierPriorityAgent", input.value))
               /\ IF out.raised
                  THEN pc' = "failed" /\ error' = out /\ UNCHANGED priority_result
                  ELSE pc' = "routing" /\ priority_result' = out.value
                       /\ UNCHANGED error
    /\ UNCHANGED <<tickets, idx, sentiment_result, routing_result, results,
                   ticket_results, metrics>>

\* routing_result = router_agent.run(RoutingInput(...))
RunRouting ==
    /\ pc = "routing"
    /\ LET input == Validate("RoutingInput", RoutingInput,
                             RoutingKwargs(sentiment_result, priority_result))
           out == run("RoutingOutput", RoutingOutput)
       IN IF input.raised
          THEN /\ pc' = "failed"
               /\ error' = input
               /\ UNCHANGED <<calls, routing_result>>
          ELSE /\ calls' = Append(calls, Call(idx + 1, "RoutingAgent", input.value))
               /\ IF out.raised
                  THEN pc' = "failed" /\ error' = out /\ UNCHANGED routing_result
                  ELSE pc' = "return" /\ routing_result' = out.value
                       /\ UNCHANGED error
    /\ UNCHANGED <<tickets, idx, sentiment_result, priority_result, results,
                   ticket_results, metrics>>

\* process_ticket returns its dict; main appends it and goes to the next ticket.
ReturnOutcome ==
    /\ pc = "return"
    /\ results' = AppendResult(results,
                    Outcome(tickets[idx + 1], sentiment_result, priority_result,
                            routing_result))
    /\ idx' = idx + 1
    /\ pc' = "loop"
    /\ UNCHANGED <<tickets, sentiment_result, priority_result, routing_result,
                   calls, error, ticket_results, metrics>>

\* The loop is over: results are saved and handed to calculate_metrics.
LoopExit ==
    /\ pc = "loop"
    /\ idx = Len(tickets)
    /\ ticket_results' = results
    /\ pc' = "call"
    /\ UNCHANGED <<tickets, idx, sentiment_result, priority_result, routing_result,
                   calls, results, error, metrics>>

\* metrics = calculate_metrics(ticket_results)
CalculateMetrics ==
    /\ pc = "call"
    /\ metrics' = calculate_metrics(ticket_results)
    /\ pc' = IF metrics'.raised THEN "failed" ELSE "done"
    /\ error' = IF metrics'.raised THEN metrics' ELSE error
    /\ UNCHANGED <<tickets, idx, sentiment_result, priority_result, routing_result,
                   calls, results, ticket_results>>

Next ==
    \/ LoopEnter
    \/ RunSentiment
    \/ RunPriority
    \/ RunRouting
    \/ ReturnOutcome
    \/ LoopExit
    \/ CalculateMetrics

Spec == Init /\ [][Next]_vars

---------------------------------------------------------------------------
\* calculate_metrics on its own, over every batch of outcomes up to MaxBatch.

SlaStrings == {"4 hours", "2 hours", "30 minutes", "1 day", "about 2 hours"}

RouteNames == {"Tier 1 Support", "Tier 2 Support"}

OutcomePool ==
    { [ticket_id |-> PyStr("T-001"),
       sentiment |-> [sentiment_score |-> PyFloat(8, 10), urgency_level |-> PyStr("Medium")],
       priority |-> [priority_score |-> PyFloat(8, 10), sla_target_time |-> PyStr(sla)],
       routing |-> [route_to |-> PyStr(route), escalate |-> PyBool(esc)]]
      : sla \in SlaStrings, route \in RouteNames, esc \in BOOLEAN }

InitMetrics ==
    /\ ticket_results \in SeqsUpTo(OutcomePool, MaxBatch)
    /\ pc = "call"
    /\ tickets = <<>>
    /\ idx = 0
    /\ sentiment_result = Unset
    /\ priority_result = Unset
    /\ routing_result = Unset
    /\ calls = <<>>
    /\ results = <<>>
    /\ error = NoError
    /\ metrics = NotCalled

NextMetrics == CalculateMetrics

SpecMetrics == InitMetrics /\ [][NextMetrics]_vars

---------------------------------------------------------------------------
\* Properties of calculate_metrics (checked under SpecMetrics).

Called == metrics # NotCalled

Total == Len(ticket_results)

Escalated == Cardinality({i \in 1..Total : ticket_results[i].routing.escalate.v = TRUE})

Occurrences(route) ==
    Cardinality({i \in 1..Total : ticket_results[i].routing.route_to.v = route})

RECURSIVE SumValues(_, _)
SumValues(f, S) ==
    IF S = {} THEN 0
    ELSE LET k == CHOOSE x \in S : TRUE IN f[k] + SumValues(f, S \ {k})

\* The conversion the specification describes: "<number> hour(s)" is that
\* number, "<number> minute(s)" is number/60, anything else is 0.
ClaimedSlaHours(sla) ==
    LET toks == split(sla)
        whole == Len(toks) = 2 /\ toks[1] # <<>>
                 /\ \A i \in 1..Len(toks[1]) : toks[1][i] \in DOMAIN DigitVal
    IN IF whole /\ toks[2] \in {Chars["hour"], Append(Chars["hour"], "s")}
       THEN Frac(DigitsValue(toks[1], 0), 1)
       ELSE IF whole /\ toks[2] \in {Chars["minute"], Append(Chars["minute"], "s")}
       THEN Frac(DigitsValue(toks[1], 0), 60)
       ELSE Frac(0, 1)

ClaimedSlaSum ==
    sum([i \in 1..Total |-> ClaimedSlaHours(ticket_results[i].priority.sla_target_time.v)])

RateIsQuotient(rate) ==
    /\ rate.d > 0
    /\ rate.n * Total = Escalated * rate.d
    /\ 0 <= rate.n
    /\ rate.n <= rate.d

DistributionIsCount(rd) ==
    /\ DOMAIN rd = {ticket_results[i].routing.route_to.v : i \in 1..Total}
    /\ \A k \in DOMAIN rd : rd[k] = Occurrences(k) /\ rd[k] > 0
    /\ SumValues(rd, DOMAIN rd) = Total

\* C1: for every non-empty batch calculate_metrics returns escalation_rate
\* equal to (outcomes with escalate true) / (outcomes in the batch), a value
\* in [0, 1].
C1_EscalationRate ==
    (Called /\ Total > 0) =>
        (~metrics.raised /\ RateIsQuotient(metrics.value.escalation_rate))

\* Whenever calculate_metrics does return, its escalation_rate is the quotient.
EscalationRateWhenReturned ==
    (Called /\ ~metrics.raised) => RateIsQuotient(metrics.value.escalation_rate)

C3_EmptyBatchAverageZero ==
    (Called /\ Total = 0) =>
        (~metrics.raised /\ metrics.value.average_sla_hours = Frac(0, 1))

\* C4: for every non-empty batch average_sla_hours is the mean of the
\* conversions of sla_target_time, where every string that is not
\* "<number> hour(s)" or "<number> minute(s)" converts to 0 and nothing fails.
C4_AverageSla ==
    (Called /\ Total > 0) =>
        /\ ~metrics.raised
        /\ metrics.value.average_sla_hours
               = Frac(ClaimedSlaSum.n, ClaimedSlaSum.d * Total)

\* Whenever calculate_metrics does return, the average is the claimed mean.
AverageSlaWhenReturned ==
    (Called /\ ~metrics.raised /\ Total > 0) =>
        metrics.value.average_sla_hours = Frac(ClaimedSlaSum.n, ClaimedSlaSum.d * Total)

\* C5: for every batch route_distribution maps each route_to that occurs to
\* its number of occurrences, has no key for a route that does not occur, and
\* its values sum to the number of outcomes.
C5_RouteDistribution ==
    Called => (~metrics.raised /\ DistributionIsCount(metrics.value.route_distribution))

\* Whenever calculate_metrics does return, route_distribution is the count.
RouteDistributionWhenReturned ==
    (Called /\ ~metrics.raised) => DistributionIsCount(metrics.value.route_distribution)

---------------------------------------------------------------------------
\* Properties of the pipeline (checked under Spec).

StageOrder == <<"SentimentAgent", "TierPriorityAgent", "RoutingAgent">>

\* The agents run for ticket i among the first q calls, in order.
AgentsUpTo(i, q) ==
    LET sel == SelectSeq(SubSeq(calls, 1, q), LAMBDA c : c.ticket = i)
    IN [k \in 1..Len(sel) |-> sel[k].agent]

Agents(i) == AgentsUpTo(i, Len(calls))

IsPrefix(a, b) == Len(a) <= Len(b) /\ SubSeq(b, 1, Len(a)) = a

\* The ticket passes the validation of both inputs built from it.
Processable(ticket) ==
    /\ ~Validate("SentimentInput", SentimentInput, SentimentKwargs(ticket)).raised
    /\ ~Validate("PriorityInput", PriorityInput, PriorityKwargs(ticket)).raised

TicketFailed == pc = "failed" /\ idx < Len(tickets)

\* C6: a batch of N tickets processed without failure gives N results, the
\* i-th carrying the i-th ticket's id, and every ticket has run all three
\* stages before the next ticket's first stage starts.
C6_OrderPreserved ==
    /\ Len(results) = idx
    /\ idx = Len(tickets) => Len(results) = Len(tickets)
    /\ \A i \in 1..Len(results) : results[i].ticket_id = tickets[i].ticket_id
    /\ \A p \in 1..Len(calls) : \A q \in p..Len(calls) :
           calls[p].ticket <= calls[q].ticket
    /\ \A q \in 1..Len(calls) :
           calls[q].agent = "SentimentAgent" =>
               \A i \in 1..(calls[q].ticket - 1) : AgentsUpTo(i, q - 1) = StageOrder

C6_Witness ==
    /\ pc = "done"
    /\ Len(tickets) = MaxTickets
    /\ Len(results) = MaxTickets
    /\ tickets[1] # tickets[2]

\* C7: a ticket's failure does not abort the batch: every ticket that can be
\* processed, before or after the failing one, has its outcome in the results
\* when the program ends.
C7_FailureIsolated ==
    pc \in {"done", "failed"} =>
        \A i \in 1..Len(tickets) :
            Processable(tickets[i]) =>
                \E j \in 1..Len(results) : results[j].ticket_id = tickets[i].ticket_id

\* C8: a stage failure ends the ticket's run with a TicketProcessingFailure
\* carrying the ticket's id and the failing stage, with no outcome for the
\* ticket and no later stage run.
C8_FailureCarriesContext ==
    TicketFailed =>
        /\ error.exc = "TicketProcessingFailure"
        /\ "ticket_id" \in DOMAIN error
        /\ "stage" \in DOMAIN error
        /\ Len(results) = idx
        /\ IsPrefix(Agents(idx + 1), StageOrder)

\* What does hold when a stage fails: no outcome for the ticket, no later stage.
NoPartialOutput ==
    TicketFailed =>
        /\ Len(results) = idx
        /\ Len(Agents(idx + 1)) < Len(StageOrder)
        /\ IsPrefix(Agents(idx + 1), StageOrder)

InRange(x, lo, hi) == x.t = "float" /\ lo * x.v.d <= x.v.n /\ x.v.n <= hi * x.v.d

NonEmptyStr(x) == x.t = "str" /\ x.v # ""

UrgencyOK(x) == x.t = "str" /\ x.v \in {"Low", "Medium", "High"}

SentimentOK(s) == InRange(s.sentiment_score, -1, 1) /\ UrgencyOK(s.urgency_level)

PriorityOK(p) == InRange(p.priority_score, 0, 1) /\ NonEmptyStr(p.sla_target_time)

RoutingOK(r) == NonEmptyStr(r.route_to) /\ r.escalate.t = "bool"

\* C9: every stage output satisfies its schema before it is used: each stored
\* result, each input handed to the Routing stage and each sub-record of an
\* outcome has its scores in range, its urgency in {Low, Medium, High}, its
\* strings non-empty and escalate a boolean.
C9_SchemaValid ==
    /\ sentiment_result # Unset => SentimentOK(sentiment_result)
    /\ priority_result # Unset => PriorityOK(priority_result)
    /\ routing_result # Unset => RoutingOK(routing_result)
    /\ \A q \in 1..Len(calls) :
           calls[q].agent = "RoutingAgent" =>
               /\ UrgencyOK(calls[q].input.urgency_level)
               /\ InRange(calls[q].input.sentiment_score, -1, 1)
               /\ InRange(calls[q].input.priority_score, 0, 1)
               /\ NonEmptyStr(calls[q].input.sla_target_time)
    /\ \A i \in 1..Len(results) :
           /\ SentimentOK(results[i].sentiment)
           /\ PriorityOK(results[i].priority)
           /\ RoutingOK(results[i].routing)

C9_Witness ==
    /\ Len(results) >= 1
    /\ pc = "return"
    /\ \E q \in 1..Len(calls) : calls[q].agent = "RoutingAgent"

\* C10: the stages of a run happen in the order Sentiment, Priority, Routing,
\* none skipped or repeated; the Priority input is the ticket's tier, prior
\* ticket count, revenue and account age only; the Routing stage runs after
\* both earlier results are stored, on exactly their four fields; an outcome
\* exists only for a run that reached the end of the Routing stage.
C10_StageOrder ==
    /\ \A i \in 1..Len(tickets) : IsPrefix(Agents(i), StageOrder)
    /\ Len(results) = idx
    /\ \A i \in 1..idx : Agents(i) = StageOrder
    /\ pc = "sentiment" =>
           Agents(idx + 1) = <<>> /\ sentiment_result = Unset
    /\ pc = "priority" =>
           /\ Agents(idx + 1) = SubSeq(StageOrder, 1, 1)
           /\ sentiment_result # Unset /\ priority_result = Unset
    /\ pc = "routing" =>
           /\ Agents(idx + 1) = SubSeq(StageOrder, 1, 2)
           /\ sentiment_result # Unset /\ priority_result # Unset
           /\ routing_result = Unset
    /\ pc = "return" =>
           /\ Agents(idx + 1) = StageOrder
           /\ sentiment_result # Unset /\ priority_result # Unset
           /\ routing_result # Unset
    /\ \A q \in 1..Len(calls) :
           calls[q].agent = "TierPriorityAgent" =>
               LET t == tickets[calls[q].ticket]
                   inp == calls[q].input
               IN /\ DOMAIN inp = {"customer_tier", "previous_tickets",
                                  "monthly_revenue", "account_age_days"}
                  /\ inp.customer_tier = t.customer_tier
                  /\ inp.previous_tickets = t.previous_tickets
                  /\ Num(inp.monthly_revenue) = Num(t.monthly_revenue)
                  /\ inp.account_age_days = t.account_age_days
    /\ \A q \in 1..Len(calls) :
           calls[q].agent = "RoutingAgent" =>
               LET i == calls[q].ticket
                   s == IF i <= idx THEN results[i].sentiment ELSE sentiment_result
                   p == IF i <= idx THEN results[i].priority ELSE priority_result
               IN calls[q].input =
                      [urgency_level |-> s.urgency_level,
                       sentiment_score |-> s.sentiment_score,
                       priority_score |-> p.priority_score,
                       sla_target_time |-> p.sla_target_time]

C10_Witness ==
    /\ pc = "done"
    /\ idx >= 2
    /\ \E q \in 1..Len(calls) : calls[q].agent = "RoutingAgent" /\ calls[q].ticket = 2

=============================================================================
